---------------------------- MODULE Spec2Model ----------------------------
(***************************************************************************)
(* Simtic: tic-tac-toe with a depth-bounded minimax search (src/main.c).   *)
(*                                                                         *)
(* The C functions are modelled as operators that compute what the code    *)
(* computes, loop by loop.  A struct board_pos is a record                 *)
(* [sq |-> (function on 0..8), color |-> WHITE or BLACK]; a struct         *)
(* move_list is a record [move |-> (function on 0..8), moves |-> count].   *)
(* minimax and move_pick return, next to their C return value, the number  *)
(* of times they execute nodecount++ (main.c:403).                         *)
(***************************************************************************)
EXTENDS Integers, Sequences, FiniteSets, TLC

(***************************************************************************)
(* Program constants.                                                      *)
(***************************************************************************)
MOVES_MAX == 9
SQUARES_MAX == 9
WHITE == 0
BLACK == 1
EMPTY == 2
MOVE_NONE == -1
INF == 100

(* C arrays are indexed from 0. *)
Arr3(a, b, c) == (0 :> a) @@ (1 :> b) @@ (2 :> c)

winning_squares ==
  (0 :> Arr3(0, 1, 2)) @@ (1 :> Arr3(3, 4, 5)) @@ (2 :> Arr3(6, 7, 8)) @@
  (3 :> Arr3(0, 3, 6)) @@ (4 :> Arr3(1, 4, 7)) @@ (5 :> Arr3(2, 5, 8)) @@
  (6 :> Arr3(0, 4, 8)) @@ (7 :> Arr3(2, 4, 6))

(* MAX with the comparison turned round: it yields the smaller value. *)
MAX_smaller(X, Y) == IF X < Y THEN X ELSE Y

MAX(X, Y) == IF X > Y THEN X ELSE Y

(* MIN with the comparison turned round: it yields the larger value. *)
MIN_larger(X, Y) == IF X < Y THEN Y ELSE X

MIN(X, Y) == IF X > Y THEN Y ELSE X

(***************************************************************************)
(* Move handling.                                                          *)
(***************************************************************************)
(* move_do without its second statement: the side to move stays. *)
move_do_same_color(pos, move) ==
  [sq |-> [pos.sq EXCEPT ![move] = pos.color], color |-> pos.color]

move_do(pos, move) ==
  [sq    |-> [pos.sq EXCEPT ![move] = pos.color],
   color |-> IF pos.color = WHITE THEN BLACK ELSE WHITE]

(* move_undo without its second statement: the side to move stays. *)
move_undo_same_color(pos, move) ==
  [sq |-> [pos.sq EXCEPT ![move] = EMPTY], color |-> pos.color]

move_undo(pos, move) ==
  [sq    |-> [pos.sq EXCEPT ![move] = EMPTY],
   color |-> IF pos.color = WHITE THEN BLACK ELSE WHITE]

board_empty(pos) == \E i \in 0..(SQUARES_MAX - 1) : pos.sq[i] = EMPTY

(* The second loop of move_generate, from index i on; mp is the list so far. *)
RECURSIVE move_generate_from(_, _, _)
move_generate_from(pos, mp, i) ==
  IF i >= SQUARES_MAX THEN mp
  ELSE IF pos.sq[i] = EMPTY
       THEN move_generate_from(pos,
                [move  |-> [mp.move EXCEPT ![mp.moves] = i],
                 moves |-> mp.moves + 1], i + 1)
       ELSE move_generate_from(pos, mp, i + 1)

(* move_generate with its second loop starting at square 1. *)
move_generate_from_1(pos) ==
  move_generate_from(pos, [move |-> [i \in 0..(MOVES_MAX - 1) |-> MOVE_NONE],
                           moves |-> 0], 1)

move_generate(pos) ==
  move_generate_from(pos,
      [move |-> [i \in 0..(MOVES_MAX - 1) |-> MOVE_NONE], moves |-> 0], 0)

(***************************************************************************)
(* Evaluation.                                                             *)
(***************************************************************************)
(* The value of `ours' when the inner loop of checkmate leaves triple i:   *)
(* the loop breaks at the first square not held by player_color.           *)
checkmate_ours(pos, player_color, i) ==
  IF pos.sq[winning_squares[i][0]] # player_color THEN 0
  ELSE IF pos.sq[winning_squares[i][1]] # player_color THEN 1
  ELSE IF pos.sq[winning_squares[i][2]] # player_color THEN 2
  ELSE 3

(* checkmate looking for a line of the side to move. *)
checkmate_side_to_move(pos) ==
  IF \E i \in 0..7 : checkmate_ours(pos, pos.color, i) = 3 THEN 1 ELSE 0

checkmate(pos) ==
  LET player_color == IF pos.color = WHITE THEN BLACK ELSE WHITE
  IN  IF \E i \in 0..7 : checkmate_ours(pos, player_color, i) = 3
      THEN 1 ELSE 0

(* The points of one triple without the decrement for the enemy's squares. *)
eval_line_empties_only(pos, enemy_color, i) ==
  LET s(j) == pos.sq[winning_squares[i][j]]
      cnt(j, v) == IF s(j) = v THEN 1 ELSE 0
      ours == cnt(0, pos.color) + cnt(1, pos.color) + cnt(2, pos.color)
  IN  IF ours > 1
      THEN cnt(0, EMPTY) + cnt(1, EMPTY) + cnt(2, EMPTY)
      ELSE 0

(* The points one triple adds in eval. *)
eval_line(pos, enemy_color, i) ==
  LET s(j) == pos.sq[winning_squares[i][j]]
      cnt(j, v) == IF s(j) = v THEN 1 ELSE 0
      ours == cnt(0, pos.color) + cnt(1, pos.color) + cnt(2, pos.color)
  IN  IF ours > 1
      THEN   (cnt(0, EMPTY) + cnt(1, EMPTY) + cnt(2, EMPTY))
           - (cnt(0, enemy_color) + cnt(1, enemy_color) + cnt(2, enemy_color))
      ELSE 0

RECURSIVE eval_from(_, _, _, _)
eval_from(pos, enemy_color, i, points) ==
  IF i >= 8 THEN points
  ELSE eval_from(pos, enemy_color, i + 1, points + eval_line(pos, enemy_color, i))

eval(pos) ==
  eval_from(pos, IF pos.color = WHITE THEN BLACK ELSE WHITE, 0, 0)

(***************************************************************************)
(* Search.  The C functions work on the caller's struct through a pointer  *)
(* and count their invocations in the global nodecount, so                 *)
(*   minimax[pos, depth] is [ret |-> the score returned,                   *)
(*                           pos |-> *pos when the call returns,           *)
(*                           nodecount |-> the increments of nodecount,    *)
(*                           hist |-> the move_do and move_undo it made],  *)
(* and move_pick(pos, depth) likewise, with nodecount its final value.     *)
(***************************************************************************)
board_pos == [sq : [0..(SQUARES_MAX - 1) -> {WHITE, BLACK, EMPTY}],
              color : {WHITE, BLACK}]

(* History of the calls of move_do and move_undo made during a call of     *)
(* minimax or move_pick:                                                   *)
(*   open    the moves applied by move_do and not yet taken back, oldest   *)
(*           first                                                         *)
(*   nested  every move_undo so far took back the last move of open        *)
(*   legal   every move_do so far was given an EMPTY square                *)
hist_initial == [open |-> <<>>, nested |-> TRUE, legal |-> TRUE]

(* The history h after move_do(pos, m). *)
hist_do(h, pos, m) ==
  [open |-> Append(h.open, m),
   nested |-> h.nested,
   legal |-> h.legal /\ pos.sq[m] = EMPTY]

(* The history h after a call that made the history g of its own. *)
hist_call(h, g) ==
  [open |-> h.open \o g.open,
   nested |-> h.nested /\ g.nested,
   legal |-> h.legal /\ g.legal]

(* The history h after move_undo(pos, m). *)
hist_undo(h, m) ==
  IF h.open = <<>> THEN [h EXCEPT !.nested = FALSE]
  ELSE [open |-> SubSeq(h.open, 1, Len(h.open) - 1),
        nested |-> h.nested /\ h.open[Len(h.open)] = m,
        legal |-> h.legal]

RECURSIVE minimax_loop(_, _, _, _, _, _, _)

(* The horizon's return with the signs exchanged: eval's score as it is    *)
(* when WHITE is to move, negated when BLACK is.                           *)
minimax_horizon_white_positive(pos, score) ==
  IF pos.color = WHITE THEN score ELSE -score

(* The value minimax returns at depth 0 for eval's score of the position.  *)
minimax_horizon(pos, score) ==
  IF pos.color = WHITE THEN -score ELSE score

minimax[pos \in board_pos, depth \in Nat] ==
  IF checkmate(pos) # 0
  THEN [ret |-> (IF pos.color = WHITE THEN -INF ELSE INF),
        pos |-> pos, nodecount |-> 1, hist |-> hist_initial]
  ELSE IF ~board_empty(pos)
  THEN [ret |-> 0, pos |-> pos, nodecount |-> 1, hist |-> hist_initial]
  ELSE IF depth = 0
  THEN [ret |-> minimax_horizon(pos, eval(pos)),
        pos |-> pos, nodecount |-> 1, hist |-> hist_initial]
  ELSE minimax_loop(pos, depth, move_generate(pos), 0,
                    IF pos.color = WHITE THEN -INF ELSE INF, 1, hist_initial)

(* The for loop of minimax from index i on: score is the running score,    *)
(* n the invocations counted so far, pos the board as the loop finds it,   *)
(* h the history of move_do and move_undo so far.                          *)
minimax_loop(pos, depth, mlist, i, score, n, h) ==
  IF i >= mlist.moves
  THEN [ret |-> score, pos |-> pos, nodecount |-> n, hist |-> h]
  ELSE LET r  == minimax[move_do(pos, mlist.move[i]), depth - 1]
           p2 == move_undo(r.pos, mlist.move[i])
           h2 == hist_undo(hist_call(hist_do(h, pos, mlist.move[i]), r.hist),
                           mlist.move[i])
       IN  IF p2.color = WHITE
           THEN minimax_loop(p2, depth, mlist, i + 1, MAX(score, r.ret),
                             n + r.nodecount, h2)
           ELSE minimax_loop(p2, depth, mlist, i + 1, MIN(score, r.ret),
                             n + r.nodecount, h2)

(* The for loop of move_pick with >= and <= in place of > and <: a later   *)
(* candidate with an equal score replaces an earlier one.                  *)
RECURSIVE move_pick_loop_or_equal(_, _, _, _, _, _, _, _)
move_pick_loop_or_equal(pos, depth, mlist, i, move_picked, score_current, n, h) ==
  IF i >= mlist.moves
  THEN [ret |-> move_picked, pos |-> pos, nodecount |-> n, hist |-> h]
  ELSE LET r  == minimax[move_do(pos, mlist.move[i]), depth]
           p2 == move_undo(r.pos, mlist.move[i])
           h2 == hist_undo(hist_call(hist_do(h, pos, mlist.move[i]), r.hist),
                           mlist.move[i])
       IN  IF p2.color = WHITE
           THEN IF r.ret >= score_current
                THEN move_pick_loop_or_equal(p2, depth, mlist, i + 1,
                                             mlist.move[i], r.ret,
                                             n + r.nodecount, h2)
                ELSE move_pick_loop_or_equal(p2, depth, mlist, i + 1,
                                             move_picked, score_current,
                                             n + r.nodecount, h2)
           ELSE IF r.ret <= score_current
                THEN move_pick_loop_or_equal(p2, depth, mlist, i + 1,
                                             mlist.move[i], r.ret,
                                             n + r.nodecount, h2)
                ELSE move_pick_loop_or_equal(p2, depth, mlist, i + 1,
                                             move_picked, score_current,
                                             n + r.nodecount, h2)

(* The for loop of move_pick from index i on. *)
RECURSIVE move_pick_loop(_, _, _, _, _, _, _, _)
move_pick_loop(pos, depth, mlist, i, move_picked, score_current, n, h) ==
  IF i >= mlist.moves
  THEN [ret |-> move_picked, pos |-> pos, nodecount |-> n, hist |-> h]
  ELSE LET r  == minimax[move_do(pos, mlist.move[i]), depth]
           p2 == move_undo(r.pos, mlist.move[i])
           h2 == hist_undo(hist_call(hist_do(h, pos, mlist.move[i]), r.hist),
                           mlist.move[i])
       IN  IF p2.color = WHITE
           THEN IF r.ret > score_current
                THEN move_pick_loop(p2, depth, mlist, i + 1, mlist.move[i],
                                    r.ret, n + r.nodecount, h2)
                ELSE move_pick_loop(p2, depth, mlist, i + 1, move_picked,
                                    score_current, n + r.nodecount, h2)
           ELSE IF r.ret < score_current
                THEN move_pick_loop(p2, depth, mlist, i + 1, mlist.move[i],
                                    r.ret, n + r.nodecount, h2)
                ELSE move_pick_loop(p2, depth, mlist, i + 1, move_picked,
                                    score_current, n + r.nodecount, h2)

(* move_pick with the initial scores exchanged: +INF for WHITE, -INF for   *)
(* BLACK.                                                                  *)
move_pick_init_exchanged(pos, depth) ==
  LET mlist == move_generate(pos)
  IN  move_pick_loop(pos, depth, mlist, 0, mlist.move[0],
                     IF pos.color = WHITE THEN INF ELSE -INF, 0, hist_initial)

(* The two asserts at the end of move_pick, as the set of their possible   *)
(* outcomes.  A negative move_picked passes the first; the second then     *)
(* reads pos->sq[move_picked] in front of the array, where any value may   *)
(* lie, so that it may pass or fail.                                       *)
move_pick_asserts(pos, move_picked) ==
  IF ~(move_picked < SQUARES_MAX) THEN {FALSE}
  ELSE IF move_picked \in 0..(SQUARES_MAX - 1)
  THEN {pos.sq[move_picked] = EMPTY}
  ELSE BOOLEAN

(* move_pick without `nodecount = 0': the count goes on from the 1 that a  *)
(* preceding minimax(pos, 0) has left.                                     *)
move_pick_no_reset(pos, depth) ==
  LET mlist == move_generate(pos)
  IN  move_pick_loop(pos, depth, mlist, 0, mlist.move[0],
                     IF pos.color = WHITE THEN -INF ELSE INF, 1, hist_initial)

(* move_pick without its loop: the default move is returned unexamined. *)
move_pick_default(pos, depth) ==
  [ret |-> move_generate(pos).move[0], pos |-> pos, nodecount |-> 0,
   hist |-> hist_initial]

move_pick(pos, depth) ==
  LET mlist == move_generate(pos)
  IN  move_pick_loop(pos, depth, mlist, 0, mlist.move[0],
                     IF pos.color = WHITE THEN -INF ELSE INF, 0, hist_initial)

(***************************************************************************)
(* Bounds of the model.                                                    *)
(***************************************************************************)
(* newgame is entered at most MaxGames times in a behaviour. *)
MaxGames == 1

(***************************************************************************)
(* State.                                                                  *)
(*   pc         where game_loop/newgame stands (a label or a line of       *)
(*              main.c), or "harness" in the specifications that apply     *)
(*              single functions to a position ("called" once the function *)
(*              has returned, "aborted" once an assert has failed)         *)
(*   sq, color  the struct board_pos of newgame                            *)
(*   gl_human   game_loop's local `human'                                  *)
(*   human      newgame's parameter `human' (flipped after every move)     *)
(*   gl_depth   game_loop's local `depth', passed down to move_pick        *)
(*   mm_move    make_move's local `move'                                   *)
(*   nodecount  the static counter of minimax invocations                  *)
(*   out        what newgame has printed about the result of the game      *)
(*   games      the number of calls of newgame so far                      *)
(*   selfplay   history: every move of the game so far is the move that    *)
(*              move_pick returns for the position it was made in          *)
(*   call       history: in the game, the last move made (by move_do on    *)
(*              the human's key, or by move_pick), the position it was     *)
(*              made in and the number of moves of the game so far; in the *)
(*              harness, the last function applied and its arguments       *)
(*   ret        harness: what the last function applied returned           *)
(***************************************************************************)
VARIABLES pc, sq, color, gl_human, human, gl_depth, mm_move, nodecount, out,
          games, selfplay, call, ret

vars == <<pc, sq, color, gl_human, human, gl_depth, mm_move, nodecount, out,
          games, selfplay, call, ret>>

thepos == [sq |-> sq, color |-> color]

(* struct board_pos pos = {{EMPTY, ...}, WHITE}  (newgame) *)
pos_initial == [sq |-> [i \in 0..(SQUARES_MAX - 1) |-> EMPTY], color |-> WHITE]

NoCall == [fn |-> "none", depth |-> 0, move |-> MOVE_NONE, before |-> pos_initial,
           moves |-> 0]

(* The keys getchar() can deliver; "?" stands for every other key. *)
Keys == {"y", "n", "h", "m", "e",
         "0", "1", "2", "3", "4", "5", "6", "7", "8", "?"}

(* The switch of make_move: the square a key names, MOVE_NONE for the default case. *)
key_square(key) ==
  CASE key = "0" -> 0 [] key = "1" -> 1 [] key = "2" -> 2
    [] key = "3" -> 3 [] key = "4" -> 4 [] key = "5" -> 5
    [] key = "6" -> 6 [] key = "7" -> 7 [] key = "8" -> 8
    [] OTHER -> MOVE_NONE

(* make_move's choice for the human with the test of the square left out:  *)
(* the square the key names, taken or not.                                 *)
make_move_human_any_square(pos, key) ==
  key_square(key)

(* make_move's choice for the human: the square the key names if the key   *)
(* names one and it is EMPTY, MOVE_NONE when make_move goes back to         *)
(* choose_square.                                                          *)
make_move_human(pos, key) ==
  IF key_square(key) = MOVE_NONE THEN MOVE_NONE
  ELSE IF pos.sq[key_square(key)] = EMPTY THEN key_square(key)
  ELSE MOVE_NONE

(* The switch of difficulty_menu: 0 for the default case. *)
key_depth(key) ==
  CASE key = "h" -> 9 [] key = "m" -> 3 [] key = "e" -> 1 [] OTHER -> 0

(***************************************************************************)
(* The game: game_loop, newgame and make_move.                             *)
(***************************************************************************)
Init ==
  /\ pc = "move_first_menu"
  /\ sq = pos_initial.sq
  /\ color = pos_initial.color
  /\ gl_human = FALSE
  /\ human = FALSE
  /\ gl_depth = 0
  /\ mm_move = MOVE_NONE
  /\ nodecount = 0
  /\ out = <<>>
  /\ games = 0
  /\ selfplay = TRUE
  /\ call = NoCall
  /\ ret = 0

(* move_first_menu: 'y'/'n' set human, any other key asks again. *)
MoveFirstMenu ==
  /\ pc = "move_first_menu"
  /\ \E key \in Keys :
       IF key \in {"y", "n"}
       THEN /\ gl_human' = (key = "y")
            /\ pc' = "difficulty_menu"
            /\ UNCHANGED <<sq, color, human, gl_depth, mm_move, nodecount, out,
                           games, selfplay, call, ret>>
       ELSE UNCHANGED vars

(* difficulty_menu: 'h'/'m'/'e' set depth and call newgame(human, depth),        *)
(* which starts from the empty board with WHITE to move.                      *)
DifficultyMenu ==
  /\ pc = "difficulty_menu"
  /\ games < MaxGames
  /\ \E key \in Keys :
       IF key_depth(key) # 0
       THEN /\ gl_depth' = key_depth(key)
            /\ human' = gl_human
            /\ sq' = pos_initial.sq
            /\ color' = pos_initial.color
            /\ mm_move' = MOVE_NONE
            /\ out' = <<>>
            /\ games' = games + 1
            /\ selfplay' = TRUE
            /\ pc' = "newgame"
            /\ call' = NoCall
            /\ UNCHANGED <<gl_human, nodecount, ret>>
       ELSE UNCHANGED vars

(* The rest of one iteration with the two parties of the announcement      *)
(* exchanged, as if `human' were read before the swap.                     *)
Played_before_swap(p, m) ==
  LET p1 == move_do(p, m)
  IN  /\ sq' = p1.sq
      /\ color' = p1.color
      /\ mm_move' = m
      /\ human' = ~human
      /\ IF checkmate(p1) # 0
         THEN /\ out' = << IF p1.color = WHITE THEN "Black (O) wins!"
                                               ELSE "White (X) wins!",
                           IF human THEN "AI won the game!"
                                    ELSE "You won the game!" >>
              /\ pc' = "display"
         ELSE /\ out' = out
              /\ pc' = "newgame"

(* The rest of one iteration of newgame's loop once make_move has chosen   *)
(* `m' on the board p: move_do, the swap of `human', the checkmate test.   *)
Played(p, m) ==
  LET p1 == move_do(p, m)
  IN  /\ sq' = p1.sq
      /\ color' = p1.color
      /\ mm_move' = m
      /\ human' = ~human
      /\ IF checkmate(p1) # 0
         THEN /\ out' = << IF p1.color = WHITE THEN "Black (O) wins!"
                                               ELSE "White (X) wins!",
                           IF ~human THEN "AI won the game!"
                                     ELSE "You won the game!" >>
              /\ pc' = "display"
         ELSE /\ out' = out
              /\ pc' = "newgame"

(* A loop iteration in which the human moves: a key that names no square   *)
(* or a taken square goes back to choose_square.                           *)
HumanMove ==
  /\ pc = "newgame"
  /\ board_empty(thepos) = TRUE
  /\ human
  /\ \E pick \in IF selfplay THEN {move_pick(thepos, gl_depth).ret} ELSE {MOVE_NONE} :
       \E key \in Keys :
         \E m \in {make_move_human(thepos, key)} :
           IF m # MOVE_NONE
           THEN /\ Played(thepos, m)
                /\ selfplay' = (selfplay /\ m = pick)
                /\ call' = [fn |-> "move_do", depth |-> 0, move |-> m,
                            before |-> thepos, moves |-> call.moves + 1]
                /\ UNCHANGED <<gl_human, gl_depth, nodecount, games, ret>>
           ELSE UNCHANGED vars

(* A loop iteration in which the AI moves: best_sq = move_pick(pos, depth), *)
(* which ends the program if one of its asserts fails.                     *)
AIMove ==
  /\ pc = "newgame"
  /\ board_empty(thepos) = TRUE
  /\ ~human
  /\ \E r \in {move_pick(thepos, gl_depth)} :
       \E passed \in move_pick_asserts(r.pos, r.ret) :
         /\ nodecount' = r.nodecount
         /\ call' = [fn |-> "move_pick", depth |-> gl_depth, move |-> r.ret,
                     before |-> thepos, hist |-> r.hist,
                     moves |-> call.moves + (IF passed THEN 1 ELSE 0)]
         /\ IF passed
            THEN Played(r.pos, r.ret)
            ELSE /\ pc' = "aborted"
                 /\ sq' = r.pos.sq
                 /\ color' = r.pos.color
                 /\ UNCHANGED <<mm_move, human, out>>
         /\ UNCHANGED <<gl_human, gl_depth, games, selfplay, ret>>

(* while (board_empty(&pos)) fails: the board is full. *)
LoopExit ==
  /\ pc = "newgame"
  /\ board_empty(thepos) = FALSE
  /\ pc' = "display"
  /\ UNCHANGED <<sq, color, gl_human, human, gl_depth, mm_move, nodecount, out,
                 games, selfplay, call, ret>>

(* display_board(&pos); if (!checkmate(&pos)) printf("Draw!\n"); return *)
Display ==
  /\ pc = "display"
  /\ out' = IF checkmate(thepos) = 0 THEN Append(out, "Draw!") ELSE out
  /\ pc' = "newgame_menu"
  /\ UNCHANGED <<sq, color, gl_human, human, gl_depth, mm_move, nodecount,
                 games, selfplay, call, ret>>

(* newgame_menu: 'y' starts over, 'n' leaves, any other key asks again. *)
NewgameMenu ==
  /\ pc = "newgame_menu"
  /\ \E key \in Keys :
       IF key \in {"y", "n"}
       THEN /\ pc' = IF key = "y" THEN "move_first_menu" ELSE "exit_game_loop"
            /\ UNCHANGED <<sq, color, gl_human, human, gl_depth, mm_move, nodecount,
                           out, games, selfplay, call, ret>>
       ELSE UNCHANGED vars

Next ==
  \/ MoveFirstMenu
  \/ DifficultyMenu
  \/ HumanMove
  \/ AIMove
  \/ LoopExit
  \/ Display
  \/ NewgameMenu

Spec == Init /\ [][Next]_vars

(* What a step of newgame does to the board and to the place in the        *)
(* program: an iteration of the loop puts the mover's mark on a square,    *)
(* the exit from the loop and the printing of the result move on.          *)
NewgameStep ==
  /\ pc \in {"newgame", "display"}
  /\ pc' \in {"newgame", "display", "newgame_menu", "aborted"}
  /\ sq' \in {sq} \cup {[sq EXCEPT ![i] = color] : i \in 0..(SQUARES_MAX - 1)}

(* newgame does not stand still for ever: the program takes its next step, *)
(* and the human does not go on pressing keys that make no move.           *)
SpecFair == Spec /\ WF_<<pc, sq>>(NewgameStep)

(***************************************************************************)
(* Single functions applied to a position.  `call' records the function    *)
(* applied last, its arguments and the position it was given; sq and color *)
(* hold the position it leaves behind, `ret' what it returned.             *)
(***************************************************************************)
(* The search is called on the initial position and on the positions with *)
(* at most MaxEmpty empty squares.                                         *)
MaxEmpty == 5

(* depth = 9 / 3 / 1 in difficulty_menu *)
GameDepths == {9, 3, 1}

(* The depths the search is called with: those of difficulty_menu, and the *)
(* horizon itself.                                                         *)
Depths == {0} \cup GameDepths

Empties(pos) == Cardinality({i \in 0..(SQUARES_MAX - 1) : pos.sq[i] = EMPTY})

CallScope(pos) == Empties(pos) <= MaxEmpty \/ pos = pos_initial

Harness ==
  /\ pc = "harness"
  /\ gl_human = FALSE
  /\ human = FALSE
  /\ gl_depth = 0
  /\ mm_move = MOVE_NONE
  /\ nodecount = 0
  /\ out = <<>>
  /\ games = 0
  /\ selfplay = TRUE
  /\ call = NoCall
  /\ ret = 0

(* Any contents of a struct board_pos. *)
InitAny ==
  /\ sq \in [0..(SQUARES_MAX - 1) -> {WHITE, BLACK, EMPTY}]
  /\ color \in {WHITE, BLACK}
  /\ Harness

(* The position newgame starts from. *)
InitTree ==
  /\ sq = pos_initial.sq
  /\ color = pos_initial.color
  /\ Harness

(* One step down the tree of positions, as the loops of newgame, move_pick *)
(* and minimax take it: move_do of a move of move_generate on a position      *)
(* that is not won (a full board has no move).                                *)
Descend ==
  /\ pc = "harness"
  /\ checkmate(thepos) = 0
  /\ \E mlist \in {move_generate(thepos)} :
       \E i \in 0..(mlist.moves - 1) :
         \E p \in {move_do(thepos, mlist.move[i])} :
           /\ sq' = p.sq
           /\ color' = p.color
  /\ UNCHANGED <<pc, gl_human, human, gl_depth, mm_move, nodecount, out, games,
                 selfplay, call, ret>>

(* move_do(&pos, m) on an empty square m *)
CallMoveDo ==
  /\ pc = "harness"
  /\ \E m \in 0..(SQUARES_MAX - 1) :
       /\ sq[m] = EMPTY
       /\ \E p \in {move_do(thepos, m)} :
            /\ sq' = p.sq
            /\ color' = p.color
       /\ call' = [fn |-> "move_do", depth |-> 0, move |-> m, before |-> thepos]
  /\ pc' = "called"
  /\ UNCHANGED <<gl_human, human, gl_depth, mm_move, nodecount, out, games,
                 selfplay, ret>>

(* move_do(&pos, m) on a square m that holds a mark: the function has no   *)
(* test of the square and returns as for an empty one.                     *)
CallMoveDoOccupied ==
  /\ pc = "harness"
  /\ \E m \in 0..(SQUARES_MAX - 1) :
       /\ sq[m] # EMPTY
       /\ \E p \in {move_do(thepos, m)} :
            /\ sq' = p.sq
            /\ color' = p.color
       /\ call' = [fn |-> "move_do_occupied", depth |-> 0, move |-> m,
                   before |-> thepos]
  /\ pc' = "called"
  /\ UNCHANGED <<gl_human, human, gl_depth, mm_move, nodecount, out, games,
                 selfplay, ret>>

(* move_undo(&pos, m) right after move_do(&pos, m) *)
CallMoveUndo ==
  /\ pc = "called"
  /\ call.fn = "move_do"
  /\ \E p \in {move_undo(thepos, call.move)} :
       /\ sq' = p.sq
       /\ color' = p.color
  /\ call' = [call EXCEPT !.fn = "move_undo"]
  /\ UNCHANGED <<pc, gl_human, human, gl_depth, mm_move, nodecount, out, games,
                 selfplay, ret>>

(* checkmate(&pos) *)
CallCheckmate ==
  /\ pc = "harness"
  /\ ret' = checkmate(thepos)
  /\ call' = [fn |-> "checkmate", depth |-> 0, move |-> MOVE_NONE,
              before |-> thepos]
  /\ pc' = "called"
  /\ UNCHANGED <<sq, color, gl_human, human, gl_depth, mm_move, nodecount, out,
                 games, selfplay>>

(* eval(&pos) *)
CallEval ==
  /\ pc = "harness"
  /\ ret' = eval(thepos)
  /\ call' = [fn |-> "eval", depth |-> 0, move |-> MOVE_NONE,
              before |-> thepos]
  /\ pc' = "called"
  /\ UNCHANGED <<sq, color, gl_human, human, gl_depth, mm_move, nodecount, out,
                 games, selfplay>>

(* move_generate(&pos, &mlist); ret is mlist *)
CallMoveGenerate ==
  /\ pc = "harness"
  /\ ret' = move_generate(thepos)
  /\ call' = [fn |-> "move_generate", depth |-> 0, move |-> MOVE_NONE,
              before |-> thepos]
  /\ pc' = "called"
  /\ UNCHANGED <<sq, color, gl_human, human, gl_depth, mm_move, nodecount, out,
                 games, selfplay>>

(* minimax(&pos, d) *)
CallMinimax(d) ==
  /\ pc = "harness"
  /\ \E r \in {minimax[thepos, d]} :
       /\ sq' = r.pos.sq
       /\ color' = r.pos.color
       /\ nodecount' = nodecount + r.nodecount
       /\ ret' = r.ret
       /\ call' = [fn |-> "minimax", depth |-> d, move |-> MOVE_NONE,
                   before |-> thepos, hist |-> r.hist]
  /\ pc' = "called"
  /\ UNCHANGED <<gl_human, human, gl_depth, mm_move, out, games, selfplay>>

(* move_pick(&pos, d) on a board with an empty square, after a call        *)
(* minimax(&pos, 0) has left its count in nodecount.                       *)
CallMovePick(d) ==
  /\ pc = "called"
  /\ call.fn = "minimax"
  /\ call.depth = 0
  /\ board_empty(thepos) = TRUE
  /\ \E r \in {move_pick(thepos, d)} :
       /\ sq' = r.pos.sq
       /\ color' = r.pos.color
       /\ nodecount' = r.nodecount
       /\ ret' = r.ret
       /\ call' = [fn |-> "move_pick", depth |-> d, move |-> MOVE_NONE,
                   before |-> thepos, hist |-> r.hist]
  /\ pc' = "called"
  /\ UNCHANGED <<gl_human, human, gl_depth, mm_move, out, games, selfplay>>

(* move_pick(&pos, d) on a full board: the loop has no move to try, the    *)
(* default move_picked = mlist.move[0] is MOVE_NONE, and the asserts       *)
(* decide whether the function returns it.                                 *)
CallMovePickFull(d) ==
  /\ pc = "harness"
  /\ board_empty(thepos) = FALSE
  /\ \E r \in {move_pick(thepos, d)} :
       /\ sq' = r.pos.sq
       /\ color' = r.pos.color
       /\ nodecount' = r.nodecount
       /\ \E passed \in move_pick_asserts(r.pos, r.ret) :
            IF passed
            THEN pc' = "called" /\ ret' = r.ret
            ELSE pc' = "aborted" /\ ret' = ret
  /\ call' = [fn |-> "move_pick_full", depth |-> d, move |-> MOVE_NONE,
              before |-> thepos]
  /\ UNCHANGED <<gl_human, human, gl_depth, mm_move, out, games, selfplay>>

NextAny ==
  \/ CallMoveDo
  \/ CallMoveUndo
  \/ CallCheckmate
  \/ CallEval

SpecAny == InitAny /\ [][NextAny]_vars

(* The positions of the tree, and on them the calls that break the         *)
(* preconditions of move_do and move_pick.                                 *)
NextMisuse ==
  \/ Descend
  \/ CallMoveDoOccupied
  \/ \E d \in GameDepths : CallMovePickFull(d)

SpecMisuse == InitTree /\ [][NextMisuse]_vars

NextTree ==
  \/ Descend
  \/ CallMoveGenerate
  \/ \E d \in Depths : CallScope(thepos) /\ CallMinimax(d)
  \/ \E d \in Depths : CallScope(thepos) /\ CallMovePick(d)

SpecTree == InitTree /\ [][NextTree]_vars

(***************************************************************************)
(* Properties.                                                             *)
(***************************************************************************)
(* C1: minimax called on the empty board (all 9 squares EMPTY, WHITE to    *)
(* move) with depth 9 returns exactly 0.                                   *)
C1_MinimaxEmptyBoard ==
  (call.fn = "minimax" /\ call.before = pos_initial /\ call.depth = 9)
    => ret = 0

(* minimax(empty board, 9) has returned after searching below the root. *)
C1_Witness ==
  /\ pc = "called"
  /\ call.fn = "minimax"
  /\ call.before = pos_initial
  /\ call.depth = 9
  /\ nodecount > SQUARES_MAX

(* The eight lines of the board, as sets of squares. *)
Lines == {{0, 1, 2}, {3, 4, 5}, {6, 7, 8},
          {0, 3, 6}, {1, 4, 7}, {2, 5, 8},
          {0, 4, 8}, {2, 4, 6}}

(* Colour c holds all three squares of some line of the board b. *)
HoldsLine(b, c) == \E l \in Lines : \A k \in l : b[k] = c

(* C2: in the game from the empty board in which every move of both sides  *)
(* is the move move_pick returns at depth 9, neither side ever completes a *)
(* line, and the game ends with a full board and no winner.                *)
C2_SelfPlayDraws ==
  (selfplay /\ gl_depth = 9 /\ pc \in {"newgame", "display", "newgame_menu"})
    => /\ ~HoldsLine(sq, WHITE)
       /\ ~HoldsLine(sq, BLACK)
       /\ pc = "display" => \A i \in 0..(SQUARES_MAX - 1) : sq[i] # EMPTY
       /\ pc = "newgame_menu" => out = <<"Draw!">>

(* Such a game has ended: the board is full and the game is over. *)
C2_Witness ==
  /\ selfplay
  /\ gl_depth = 9
  /\ pc = "newgame_menu"
  /\ \A i \in 0..(SQUARES_MAX - 1) : sq[i] # EMPTY

(* The number of squares of the board b that hold c. *)
Marks(b, c) == Cardinality({i \in 0..(SQUARES_MAX - 1) : b[i] = c})

(* C3: in every position reached from the initial one by the moves of the  *)
(* game loop and of the search, WHITE has as many marks as BLACK or one    *)
(* more, and WHITE is to move exactly when the two counts are equal.       *)
C3_MarkCounts ==
  /\ Marks(sq, WHITE) - Marks(sq, BLACK) \in {0, 1}
  /\ color = WHITE <=> Marks(sq, WHITE) = Marks(sq, BLACK)

(* A position five moves down, with BLACK to move. *)
C3_Witness ==
  /\ Marks(sq, WHITE) = 3
  /\ Marks(sq, BLACK) = 2
  /\ color = BLACK

(* C4: for every position and every move m whose square is EMPTY in it,    *)
(* move_do(pos, m) followed immediately by move_undo(pos, m) leaves all    *)
(* nine squares and the side to move as they were before move_do.          *)
C4_DoUndoRestores ==
  call.fn = "move_undo" => thepos = call.before

(* move_do and move_undo of square 4 have run on a board with marks of     *)
(* both colours and BLACK to move.                                         *)
C4_Witness ==
  /\ call.fn = "move_undo"
  /\ call.move = 4
  /\ call.before.color = BLACK
  /\ Marks(call.before.sq, WHITE) > 0
  /\ Marks(call.before.sq, BLACK) > 0

(* C5: for every reachable position move_generate fills the move list with *)
(* exactly the indices of the EMPTY squares, each once, in strictly        *)
(* ascending order, sets moves to 9 minus the number of occupied squares,  *)
(* and does not modify the position.                                       *)
C5_MoveGenerate ==
  call.fn = "move_generate" =>
    /\ ret.moves = SQUARES_MAX - (Marks(call.before.sq, WHITE)
                                  + Marks(call.before.sq, BLACK))
    /\ {ret.move[k] : k \in 0..(ret.moves - 1)}
         = {i \in 0..(SQUARES_MAX - 1) : call.before.sq[i] = EMPTY}
    /\ \A k \in 0..(ret.moves - 2) : ret.move[k] < ret.move[k + 1]
    /\ thepos = call.before

(* move_generate has listed four moves, the first of them square 2. *)
C5_Witness ==
  /\ call.fn = "move_generate"
  /\ ret.moves = 4
  /\ ret.move[0] = 2

(* C6: for every position checkmate returns true exactly when one of the   *)
(* eight lines has all three squares held by the colour that is not to     *)
(* move; in particular it is true whenever WHITE has just moved and holds  *)
(* a line, whatever BLACK holds elsewhere.                                 *)
C6_Checkmate ==
  call.fn = "checkmate" =>
    /\ ret \in {0, 1}
    /\ ret = 1 <=> HoldsLine(sq, IF color = WHITE THEN BLACK ELSE WHITE)
    /\ (color = BLACK /\ HoldsLine(sq, WHITE)) => ret = 1

(* checkmate has returned 1 with WHITE on squares 0, 1, 2 and BLACK, to    *)
(* move, on three squares elsewhere.                                       *)
C6_Witness ==
  /\ call.fn = "checkmate"
  /\ ret = 1
  /\ color = BLACK
  /\ \A i \in {0, 1, 2} : sq[i] = WHITE
  /\ Marks(sq, BLACK) = 3

(* The EMPTY squares of a position. *)
EmptySquares(p) == {i \in 0..(SQUARES_MAX - 1) : p.sq[i] = EMPTY}

(* The scores minimax gives, at depth d, to the positions after each move  *)
(* on an EMPTY square of p.                                                *)
Scores(p, d) == [m \in EmptySquares(p) |-> minimax[move_do(p, m), d].ret]

(* The best of the scores sc for colour c: the greatest for WHITE, the     *)
(* least for BLACK.                                                        *)
BestScore(sc, c) ==
  IF c = WHITE
  THEN CHOOSE x \in {sc[m] : m \in DOMAIN sc} : \A m \in DOMAIN sc : sc[m] <= x
  ELSE CHOOSE x \in {sc[m] : m \in DOMAIN sc} : \A m \in DOMAIN sc : sc[m] >= x

(* C7: for every position P with an EMPTY square, move_pick(P, depth)      *)
(* returns the lowest EMPTY square whose score minimax(P after it, depth)  *)
(* is the maximum (WHITE to move) or the minimum (BLACK to move) over the  *)
(* EMPTY squares of P; a later square with an equal score never replaces   *)
(* an earlier one, and the first EMPTY square is returned when no score    *)
(* improves on the initial -100 / +100.                                    *)
C7_MovePickLowestBest ==
  call.fn = "move_pick" =>
    \A sc \in {Scores(call.before, call.depth)} :
      \A best \in {BestScore(sc, call.before.color)} :
        /\ ret \in DOMAIN sc
        /\ sc[ret] = best
        /\ \A m \in DOMAIN sc : m < ret => sc[m] # best
        /\ (\A m \in DOMAIN sc :
              sc[m] = IF call.before.color = WHITE THEN -INF ELSE INF)
             => \A m \in DOMAIN sc : ret <= m

(* move_pick has returned a square that is not the first EMPTY one, and a  *)
(* later EMPTY square has the same score.                                  *)
C7_Witness ==
  /\ call.fn = "move_pick"
  /\ \E sc \in {Scores(call.before, call.depth)} :
       /\ \E m \in DOMAIN sc : m < ret
       /\ \E m \in DOMAIN sc : m > ret /\ sc[m] = sc[ret]

(* WHITE is to move in p, holds squares 0 and 1, square 2 is EMPTY and     *)
(* the position is not won.                                                *)
TwoInTopRow(p) ==
  /\ p.color = WHITE
  /\ p.sq[0] = WHITE
  /\ p.sq[1] = WHITE
  /\ p.sq[2] = EMPTY
  /\ ~HoldsLine(p.sq, BLACK)
  /\ ~HoldsLine(p.sq, WHITE)

(* C8: for every reachable position that is not won, with WHITE to move,   *)
(* WHITE on squares 0 and 1 and square 2 EMPTY, move_pick at every depth   *)
(* >= 1 (in particular 1, 3 and 9) returns 2, and checkmate is true right  *)
(* after that move is made.                                                *)
C8_CompletesTopRow ==
  (call.fn = "move_pick" /\ call.depth >= 1 /\ TwoInTopRow(call.before))
    => /\ ret = 2
       /\ checkmate(move_do(call.before, ret)) # 0

(* move_pick at depth 1 has answered for such a position with two marks of *)
(* each colour.                                                            *)
C8_Witness ==
  /\ call.fn = "move_pick"
  /\ call.depth = 1
  /\ TwoInTopRow(call.before)
  /\ Marks(call.before.sq, BLACK) = 2
  /\ ret = 2

(* The position after the side to move of p has marked the EMPTY square m. *)
Place(p, m) ==
  [sq |-> [p.sq EXCEPT ![m] = p.color],
   color |-> IF p.color = WHITE THEN BLACK ELSE WHITE]

(* Colour c can force a win from p: c holds a line already, or the other   *)
(* colour does not, the board is not full, and some move of c (when c is   *)
(* to move) or every move of the opponent leads to a position from which c *)
(* can force a win.                                                        *)
ForcedWin[p \in board_pos, c \in {WHITE, BLACK}] ==
  IF HoldsLine(p.sq, c) THEN TRUE
  ELSE IF HoldsLine(p.sq, IF c = WHITE THEN BLACK ELSE WHITE) THEN FALSE
  ELSE IF EmptySquares(p) = {} THEN FALSE
  ELSE IF p.color = c
  THEN \E m \in EmptySquares(p) : ForcedWin[Place(p, m), c]
  ELSE \A m \in EmptySquares(p) : ForcedWin[Place(p, m), c]

(* The game-theoretic value of p. *)
GameValue(p) ==
  IF ForcedWin[p, WHITE] THEN 100
  ELSE IF ForcedWin[p, BLACK] THEN -100
  ELSE 0

(* p is not over and every move of the side to move leads to a position    *)
(* from which the opponent can force a win.                                *)
EveryMoveLoses(p) ==
  /\ ~HoldsLine(p.sq, WHITE)
  /\ ~HoldsLine(p.sq, BLACK)
  /\ EmptySquares(p) # {}
  /\ \A m \in EmptySquares(p) :
       ForcedWin[Place(p, m), IF p.color = WHITE THEN BLACK ELSE WHITE]

(* C9: for every reachable position P and every depth that is at least    *)
(* the number of EMPTY squares of P, minimax(P, depth) returns the exact   *)
(* game-theoretic value of P: +100 if WHITE can force a win, -100 if BLACK *)
(* can, 0 otherwise; in particular -100 (WHITE to move) or +100 (BLACK to  *)
(* move) when every move of the side to move leads to a forced loss.       *)
C9_FullDepthExact ==
  (call.fn = "minimax" /\ call.depth >= Empties(call.before))
    => /\ ret = GameValue(call.before)
       /\ EveryMoveLoses(call.before)
            => ret = IF call.before.color = WHITE THEN -100 ELSE 100

(* minimax at depth 3 has returned -100 for a position with three EMPTY    *)
(* squares and WHITE to move in which nobody has won yet.                  *)
C9_Witness ==
  /\ call.fn = "minimax"
  /\ call.depth = 3
  /\ Empties(call.before) = 3
  /\ call.before.color = WHITE
  /\ ~HoldsLine(call.before.sq, BLACK)
  /\ ret = -100

(* The number of invocations of minimax that minimax(p, d) amounts to:     *)
(* itself and, unless the side that has just moved holds a line, the board *)
(* is full or d is 0, those for the position after each EMPTY square with  *)
(* d - 1.                                                                  *)
RECURSIVE SumVisits(_, _, _)
Visits[p \in board_pos, d \in Nat] ==
  IF \/ HoldsLine(p.sq, IF p.color = WHITE THEN BLACK ELSE WHITE)
     \/ EmptySquares(p) = {}
     \/ d = 0
  THEN 1
  ELSE 1 + SumVisits(p, d - 1, 0)

(* The sum of Visits[Place(p, m), d] over the EMPTY squares m >= i of p. *)
SumVisits(p, d, i) ==
  IF i >= SQUARES_MAX THEN 0
  ELSE IF p.sq[i] = EMPTY
  THEN Visits[Place(p, i), d] + SumVisits(p, d, i + 1)
  ELSE SumVisits(p, d, i + 1)

(* C10: the node count left by move_pick(P, d) starts from 0 at the call   *)
(* and equals the number of invocations of minimax made during it; for a   *)
(* fixed position P with an EMPTY square it does not decrease as d grows,  *)
(* and from the empty board the count at depth 9 is strictly greater than  *)
(* the count at depth 1.                                                   *)
C10_NodeCount ==
  call.fn = "move_pick" =>
    /\ nodecount = SumVisits(call.before, call.depth, 0)
    /\ \A d \in Depths :
         d <= call.depth => move_pick(call.before, d).nodecount <= nodecount
    /\ (call.before = pos_initial /\ call.depth = 9)
         => nodecount > move_pick(pos_initial, 1).nodecount

(* move_pick(empty board, 9) has returned; minimax(empty board, 0) had     *)
(* left nodecount at 1 before it.                                          *)
C10_Witness ==
  /\ call.fn = "move_pick"
  /\ call.before = pos_initial
  /\ call.depth = 9
  /\ nodecount > SQUARES_MAX

(* C11: move_do on a square that is not EMPTY fails fast: it does not      *)
(* overwrite the square and does not change the side to move.              *)
C11_MoveDoOccupiedFailsFast ==
  call.fn = "move_do_occupied"
    => /\ pc = "aborted"
       /\ sq = call.before.sq
       /\ color = call.before.color

(* C12: move_pick on a position without an EMPTY square fails fast: one of *)
(* its asserts aborts the call, and it never returns a value as if a move  *)
(* had been chosen.                                                        *)
C12_MovePickFullFailsFast ==
  call.fn = "move_pick_full" => pc = "aborted"

(* What one line l adds to the heuristic score of the position p: nothing  *)
(* unless the side to move holds at least two of its squares, else the     *)
(* number of its EMPTY squares less the number the opponent holds.         *)
TripleValue(p, l) ==
  IF Cardinality({k \in l : p.sq[k] = p.color}) < 2 THEN 0
  ELSE   Cardinality({k \in l : p.sq[k] = EMPTY})
       - Cardinality({k \in l : p.sq[k] \notin {EMPTY, p.color}})

(* The heuristic score of the position p: the sum over the eight lines.    *)
Heuristic(p) ==
  LET Sum[ls \in SUBSET Lines] ==
        IF ls = {} THEN 0
        ELSE LET l == CHOOSE x \in ls : TRUE
             IN  TripleValue(p, l) + Sum[ls \ {l}]
  IN  Sum[Lines]

(* C13: at the horizon (depth 0, position neither won nor full) minimax    *)
(* returns eval(P) when WHITE is to move and -eval(P) when BLACK is to     *)
(* move, eval counting from the side to move's point of view.              *)
C13_HorizonSign ==
  (/\ call.fn = "minimax"
   /\ call.depth = 0
   /\ checkmate(call.before) = 0
   /\ board_empty(call.before))
    => ret = IF call.before.color = WHITE THEN Heuristic(call.before)
                                          ELSE -Heuristic(call.before)

(* C13, amended: at the horizon (depth 0, position neither won nor full)   *)
(* minimax returns -Heuristic(P) when WHITE is to move and +Heuristic(P)   *)
(* when BLACK is to move.                                                  *)
C13_HorizonSignAmended ==
  (/\ call.fn = "minimax"
   /\ call.depth = 0
   /\ checkmate(call.before) = 0
   /\ board_empty(call.before))
    => ret = IF call.before.color = WHITE THEN -Heuristic(call.before)
                                          ELSE Heuristic(call.before)

(* minimax has returned from depth 0 on a position that is neither won nor *)
(* full, whose heuristic score is not 0, with WHITE to move.               *)
C13_Witness ==
  /\ call.fn = "minimax"
  /\ call.depth = 0
  /\ checkmate(call.before) = 0
  /\ board_empty(call.before)
  /\ call.before.color = WHITE
  /\ Heuristic(call.before) # 0
  /\ ret = -Heuristic(call.before)

(* C15: for every position, eval returns the sum over the eight lines of   *)
(* 0 where the side to move holds fewer than two squares of the line and   *)
(* of the number of EMPTY squares less the number of the opponent's        *)
(* squares of the line otherwise, and leaves the position as it was.       *)
C15_EvalSum ==
  call.fn = "eval"
    => /\ ret = Heuristic(call.before)
       /\ sq = call.before.sq
       /\ color = call.before.color

(* eval has returned a negative score: the side to move holds two squares  *)
(* of a line whose third square is the opponent's.                         *)
C15_Witness ==
  /\ call.fn = "eval"
  /\ ret < 0
  /\ \E l \in Lines :
       /\ Cardinality({k \in l : call.before.sq[k] = call.before.color}) = 2
       /\ Cardinality({k \in l : call.before.sq[k] = EMPTY}) = 0

(* C14: when minimax returns, and when move_pick returns, the nine squares *)
(* and the side to move are what they were at the call, every move_undo    *)
(* made during the call took back the move applied last among those not    *)
(* yet taken back, and no applied move is left.                            *)
C14_SearchRestoresPosition ==
  call.fn \in {"minimax", "move_pick"}
    => /\ sq = call.before.sq
       /\ color = call.before.color
       /\ call.hist.nested
       /\ call.hist.open = <<>>

(* minimax has returned from a search of the whole tree below the empty    *)
(* board, in which 549945 moves were applied and taken back.               *)
C14_Witness ==
  /\ call.fn = "minimax"
  /\ call.before = pos_initial
  /\ call.depth = 9
  /\ nodecount = 549946
  /\ sq = pos_initial.sq
  /\ call.hist.open = <<>>

(* C16: in the game, whatever keys are pressed, whoever moves first and at *)
(* each of the three depths, move_do is only given EMPTY squares, by       *)
(* make_move and by the search alike, move_pick is only given positions    *)
(* with an EMPTY square and no completed line, and neither assert at the   *)
(* end of move_pick fails.                                                 *)
C16_GamePreconditions ==
  /\ pc # "aborted"
  /\ call.fn = "move_do" => call.before.sq[call.move] = EMPTY
  /\ call.fn = "move_pick"
       => /\ board_empty(call.before)
          /\ ~HoldsLine(call.before.sq, WHITE)
          /\ ~HoldsLine(call.before.sq, BLACK)
          /\ call.hist.legal
          /\ call.move \in 0..(SQUARES_MAX - 1)
          /\ call.before.sq[call.move] = EMPTY

(* In a game at depth 3 that the human began, the AI has made the move     *)
(* move_pick returned on a board with two EMPTY squares, and won with it.  *)
C16_Witness ==
  /\ call.fn = "move_pick"
  /\ call.depth = 3
  /\ gl_human
  /\ Marks(call.before.sq, EMPTY) = 2
  /\ pc = "display"

(* What holds of a game at every moment: the moves applied are the marks   *)
(* on the board, at most 9; the loop stands at its head only on a board    *)
(* without a line; every move was made on a board with an EMPTY square and *)
(* without a line; once the loop is left the last mover holds a line or    *)
(* the board is full; and once newgame has printed its result, "Draw!" is  *)
(* there exactly if the board is full and nobody holds a line.             *)
C17_GameInvariant ==
  /\ call.moves <= SQUARES_MAX
  /\ call.moves = SQUARES_MAX - Marks(sq, EMPTY)
  /\ pc = "newgame" => ~HoldsLine(sq, WHITE) /\ ~HoldsLine(sq, BLACK)
  /\ call.fn # "none"
       => /\ board_empty(call.before)
          /\ ~HoldsLine(call.before.sq, WHITE)
          /\ ~HoldsLine(call.before.sq, BLACK)
  /\ pc \in {"display", "newgame_menu"}
       => /\ call.fn # "none"
          /\ HoldsLine(sq, call.before.color) \/ ~board_empty(thepos)
  /\ pc = "newgame_menu"
       => ((\E k \in 1..Len(out) : out[k] = "Draw!")
             <=> /\ ~board_empty(thepos)
                 /\ ~HoldsLine(sq, WHITE)
                 /\ ~HoldsLine(sq, BLACK))

(* C17: every game of newgame ends, after at most 9 applied moves: it      *)
(* stops at the first position in which the last mover has completed a     *)
(* line or no EMPTY square is left, no move is made on a won position, and *)
(* "Draw!" is printed exactly if the final board is full without a line.   *)
C17_GameEnds ==
  /\ []C17_GameInvariant
  /\ (pc = "newgame") ~> (pc = "newgame_menu")

(* A game has ended with the ninth move completing a line: the board is    *)
(* full, and "Draw!" is not printed.                                       *)
C17_Witness ==
  /\ pc = "newgame_menu"
  /\ call.moves = 9
  /\ HoldsLine(sq, WHITE)
  /\ Len(out) = 2

(* C18: in a game at depth 9, whichever side the human takes and whatever  *)
(* EMPTY squares the human enters, the human's colour never holds a line,  *)
(* and the game ends with "AI won the game!" or with "Draw!".              *)
C18_HumanNeverWinsAtDepth9 ==
  (gl_depth = 9 /\ pc \in {"newgame", "display", "newgame_menu"})
    => /\ ~HoldsLine(sq, IF gl_human THEN WHITE ELSE BLACK)
       /\ pc = "newgame_menu"
            => \E k \in 1..Len(out) :
                 out[k] \in {"AI won the game!", "Draw!"}
       /\ \A k \in 1..Len(out) : out[k] # "You won the game!"

(* A game at depth 9 that the human began has ended with a line of the     *)
(* AI's, and the human's moves were not those move_pick would have made.   *)
C18_Witness ==
  /\ gl_depth = 9
  /\ gl_human
  /\ pc = "newgame_menu"
  /\ HoldsLine(sq, BLACK)
  /\ ~selfplay
  /\ out = <<"Black (O) wins!", "AI won the game!">>

(* The EMPTY squares of p on which the side to move completes a line. *)
WinningSquares(p) ==
  {m \in EmptySquares(p) : HoldsLine(Place(p, m).sq, p.color)}

(* C19: for every reachable position that is not won, either colour to     *)
(* move, and every depth of 1, 3 and 9: if some EMPTY square completes a   *)
(* line of the side to move, move_pick returns such a square, and          *)
(* checkmate is true right after the move.                                 *)
C19_TakesImmediateWin ==
  (/\ call.fn = "move_pick"
   /\ call.depth \in {1, 3, 9}
   /\ ~HoldsLine(call.before.sq, WHITE)
   /\ ~HoldsLine(call.before.sq, BLACK)
   /\ WinningSquares(call.before) # {})
    => /\ ret \in WinningSquares(call.before)
       /\ checkmate(move_do(call.before, ret)) # 0

(* C19, amended: for every reachable position that is not won, either      *)
(* colour to move, in which some EMPTY square completes a line of the side *)
(* to move: move_pick at depth 1 returns such a square, and checkmate is   *)
(* true right after the move; move_pick at depths 3 and 9 returns an EMPTY *)
(* square after which the side to move can force a win, and that square    *)
(* need not complete a line.                                               *)
C19_TakesWinAmended ==
  (/\ call.fn = "move_pick"
   /\ call.depth \in {1, 3, 9}
   /\ ~HoldsLine(call.before.sq, WHITE)
   /\ ~HoldsLine(call.before.sq, BLACK)
   /\ WinningSquares(call.before) # {})
    => /\ ret \in EmptySquares(call.before)
       /\ ForcedWin[Place(call.before, ret), call.before.color]
       /\ call.depth = 1
            => /\ ret \in WinningSquares(call.before)
               /\ checkmate(move_do(call.before, ret)) # 0

(* move_pick at depth 9 has returned a square that does not complete a     *)
(* line although another square does, for BLACK.                           *)
C19_Witness ==
  /\ call.fn = "move_pick"
  /\ call.depth = 9
  /\ call.before.color = BLACK
  /\ ~HoldsLine(call.before.sq, WHITE)
  /\ WinningSquares(call.before) # {}
  /\ ret \notin WinningSquares(call.before)

(* C20: whenever newgame has announced a win, the colour it names is the   *)
(* colour of the mark the final move placed, and that colour holds a line; *)
(* the party it names is "You" if the final move was the human's input and *)
(* "AI" if it was move_pick's; and in every game the human's moves are     *)
(* WHITE's exactly if the human chose to move first.                       *)
C20_WinAnnouncement ==
  pc \in {"newgame", "display", "newgame_menu"}
    => /\ call.fn = "move_do" => (call.before.color = WHITE <=> gl_human)
       /\ call.fn = "move_pick" => (call.before.color = BLACK <=> gl_human)
       /\ Len(out) >= 2
            => /\ out[1] = (IF sq[call.move] = WHITE THEN "White (X) wins!"
                                                     ELSE "Black (O) wins!")
               /\ sq[call.move] \in {WHITE, BLACK}
               /\ sq[call.move] = call.before.color
               /\ HoldsLine(sq, sq[call.move])
               /\ out[2] = (IF call.fn = "move_do" THEN "You won the game!"
                                                   ELSE "AI won the game!")

(* The human, moving second at depth 1, has won: "Black (O)" and "You" are *)
(* named.                                                                  *)
C20_Witness ==
  /\ pc = "newgame_menu"
  /\ ~gl_human
  /\ gl_depth = 1
  /\ call.fn = "move_do"
  /\ out = <<"Black (O) wins!", "You won the game!">>
  /\ HoldsLine(sq, BLACK)
=============================================================================
